---- MODULE Spec2Model ----
(***************************************************************************)
(* Model of crab_torrent: the bencode decoder (src/src/bencode.rs), the    *)
(* torrent mapper (src/src/torrent.rs) and the canonical encoder that the  *)
(* specification describes.                                                *)
(*                                                                         *)
(* Bytes are naturals 0..255.  A signed or unsigned 64-bit number is kept  *)
(* as a numeral [neg, mag]: a sign and the decimal digits of the           *)
(* magnitude without leading zeros, so that the 64-bit limits are exact.   *)
(***************************************************************************)
EXTENDS Integers, Sequences, FiniteSets, TLC

\* input:   the byte buffer handed to decode
\* result:  what decode returned (or that it panicked)
\* bencode: the decoded root value handed to Torrent::from_bencode
\* torrent: what from_bencode returned
\* pc:      how far the decode -> map pipeline has come
\* given:   how the buffer was built (the value, spelling and remainder)
VARIABLES input, result, bencode, torrent, pc, given

vars == <<input, result, bencode, torrent, pc, given>>

----------------------------------------------------------------------------
(* Bytes the decoder dispatches on.                                        *)

B_i == 105

B_l == 108

B_d == 100

B_e == 101

B_colon == 58

B_0 == 48

B_9 == 57

B_plus == 43

B_minus == 45

IsDigit(b) == b >= B_0 /\ b <= B_9

----------------------------------------------------------------------------
(* Numerals.                                                               *)

Zero == [neg |-> FALSE, mag |-> <<0>>]

RECURSIVE StripZeros(_)
StripZeros(ds) ==
    IF Len(ds) > 1 /\ ds[1] = 0 THEN StripZeros(Tail(ds)) ELSE ds

\* a < b for two magnitudes without leading zeros
RECURSIVE MagLess(_, _)
MagLess(a, b) ==
    IF Len(a) # Len(b) THEN Len(a) < Len(b)
    ELSE IF a = <<>> THEN FALSE
    ELSE IF a[1] # b[1] THEN a[1] < b[1]
    ELSE MagLess(Tail(a), Tail(b))

I64MaxMag == <<9,2,2,3,3,7,2,0,3,6,8,5,4,7,7,5,8,0,7>>

I64MinMag == <<9,2,2,3,3,7,2,0,3,6,8,5,4,7,7,5,8,0,8>>

UsizeMaxMag == <<1,8,4,4,6,7,4,4,0,7,3,7,0,9,5,5,1,6,1,5>>

RECURSIVE MagToNat(_)
MagToNat(ds) ==
    IF ds = <<>> THEN 0
    ELSE MagToNat(SubSeq(ds, 1, Len(ds) - 1)) * 10 + ds[Len(ds)]

RECURSIVE NatToMag(_)
NatToMag(n) ==
    IF n < 10 THEN <<n>> ELSE NatToMag(n \div 10) \o <<n % 10>>

Num(n) == [neg |-> n < 0, mag |-> NatToMag(IF n < 0 THEN -n ELSE n)]

DigitValues(s) == [k \in 1..Len(s) |-> s[k] - B_0]

DigitBytes(ds) == [k \in 1..Len(ds) |-> ds[k] + B_0]

----------------------------------------------------------------------------
(* std::str::from_utf8: the well-formed byte sequences of UTF-8.           *)

Cont(b) == b >= 128 /\ b <= 191

RECURSIVE from_utf8(_)
from_utf8(s) ==
    IF s = <<>> THEN TRUE
    ELSE LET b == s[1]
             n == Len(s)
         IN  IF b < 128 THEN from_utf8(Tail(s))
             ELSE IF b >= 194 /\ b <= 223
                  THEN n >= 2 /\ Cont(s[2]) /\ from_utf8(SubSeq(s, 3, n))
             ELSE IF b >= 224 /\ b <= 239
                  THEN /\ n >= 3
                       /\ Cont(s[2]) /\ Cont(s[3])
                       /\ (b = 224 => s[2] >= 160)
                       /\ (b = 237 => s[2] <= 159)
                       /\ from_utf8(SubSeq(s, 4, n))
             ELSE IF b >= 240 /\ b <= 244
                  THEN /\ n >= 4
                       /\ Cont(s[2]) /\ Cont(s[3]) /\ Cont(s[4])
                       /\ (b = 240 => s[2] >= 144)
                       /\ (b = 244 => s[2] <= 143)
                       /\ from_utf8(SubSeq(s, 5, n))
             ELSE FALSE

----------------------------------------------------------------------------
(* str::parse::<i64>() and str::parse::<usize>().                          *)

NoNum == [ok |-> FALSE, num |-> Zero]

AllDigits(s) == \A k \in 1..Len(s) : IsDigit(s[k])

\* a parse that reads the digits and forgets the sign
parse_i64_unsigned(s) ==
    IF s = <<>> THEN NoNum
    ELSE LET digits == IF s[1] \in {B_plus, B_minus} THEN Tail(s) ELSE s
         IN  IF digits = <<>> \/ ~AllDigits(digits) THEN NoNum
             ELSE LET mag == StripZeros(DigitValues(digits))
                  IN  IF MagLess(I64MaxMag, mag) THEN NoNum
                      ELSE [ok |-> TRUE, num |-> [neg |-> FALSE, mag |-> mag]]

parse_i64(s) ==
    IF s = <<>> THEN NoNum
    ELSE IF s[1] \in {B_plus, B_minus} /\ Len(s) = 1 THEN NoNum
    ELSE LET negative == s[1] = B_minus
             digits == IF s[1] \in {B_plus, B_minus} THEN Tail(s) ELSE s
         IN  IF ~AllDigits(digits) THEN NoNum
             ELSE LET mag == StripZeros(DigitValues(digits))
                      limit == IF negative THEN I64MinMag ELSE I64MaxMag
                  IN  IF MagLess(limit, mag) THEN NoNum
                      ELSE [ok |-> TRUE,
                            num |-> [neg |-> negative /\ mag # <<0>>,
                                     mag |-> mag]]

parse_usize(s) ==
    IF s = <<>> THEN NoNum
    ELSE IF s[1] \in {B_plus, B_minus} /\ Len(s) = 1 THEN NoNum
    ELSE LET digits == IF s[1] = B_plus THEN Tail(s) ELSE s
         IN  IF ~AllDigits(digits) THEN NoNum
             ELSE LET mag == StripZeros(DigitValues(digits))
                  IN  IF MagLess(UsizeMaxMag, mag) THEN NoNum
                      ELSE [ok |-> TRUE, num |-> [neg |-> FALSE, mag |-> mag]]

----------------------------------------------------------------------------
(* enum Bencode.  Every value carries all four payload fields so that any  *)
(* two values can be compared.                                             *)

Integer(n) == [tag |-> "Integer", i |-> n, s |-> <<>>, l |-> <<>>, d |-> <<>>]

String(bytes) ==
    [tag |-> "String", i |-> Zero, s |-> bytes, l |-> <<>>, d |-> <<>>]

List(items) ==
    [tag |-> "List", i |-> Zero, s |-> <<>>, l |-> items, d |-> <<>>]

Dictionary(map) ==
    [tag |-> "Dictionary", i |-> Zero, s |-> <<>>, l |-> <<>>, d |-> map]

NoValue == [tag |-> "None", i |-> Zero, s |-> <<>>, l |-> <<>>, d |-> <<>>]

\* a map that forgets its earlier entries on every insert
insert_reset(map, k, v) == [x \in {k} |-> v]

\* a map that keeps the first value stored under a key
insert_keep_first(map, k, v) ==
    [x \in DOMAIN map \cup {k} |-> IF x \in DOMAIN map THEN map[x] ELSE v]

\* BTreeMap::insert: the new value replaces the one stored under the key
insert(map, k, v) ==
    [x \in DOMAIN map \cup {k} |-> IF x = k THEN v ELSE map[x]]

----------------------------------------------------------------------------
(* Result<(Bencode, &[u8]), BencodeError>, and the panic that ends the     *)
(* call when a slice index is out of range.                                *)

Ok(v, r) == [kind |-> "Ok", value |-> v, rest |-> r, err |-> "-"]

Err(e) == [kind |-> "Err", value |-> NoValue, rest |-> <<>>, err |-> e]

Panic == [kind |-> "Panic", value |-> NoValue, rest |-> <<>>, err |-> "-"]

NotRun == [kind |-> "NotRun", value |-> NoValue, rest |-> <<>>, err |-> "-"]

\* input.iter().position(|&x| x == b), 1-based; 0 when b does not occur
position(s, b) ==
    IF \E k \in 1..Len(s) : s[k] = b
    THEN CHOOSE k \in 1..Len(s) : s[k] = b /\ \A j \in 1..(k - 1) : s[j] # b
    ELSE 0

\* &s[from..] with a 0-based from <= len
SliceFrom(s, from) == SubSeq(s, from + 1, Len(s))

\* a decode_integer that reports every failure as NoEndMarker
decode_integer_one_kind(in) ==
    LET p == position(in, B_e)
    IN  IF p = 0 THEN Err("NoEndMarker")
        ELSE LET body == SubSeq(in, 2, p - 1)
                 n == parse_i64(body)
             IN  IF ~from_utf8(body) \/ ~n.ok THEN Err("NoEndMarker")
                 ELSE Ok(Integer(n.num), SliceFrom(in, p))

\* a decode_integer that looks for the last 'e' of the buffer
decode_integer_last_e(in) ==
    LET p == IF \E k \in 1..Len(in) : in[k] = B_e
             THEN CHOOSE k \in 1..Len(in) :
                      in[k] = B_e /\ \A j \in (k + 1)..Len(in) : in[j] # B_e
             ELSE 0
    IN  IF p = 0 THEN Err("NoEndMarker")
        ELSE LET body == SubSeq(in, 2, p - 1)
             IN  IF ~from_utf8(body) THEN Err("InvalidSequence")
                 ELSE LET n == parse_i64(body)
                      IN  IF ~n.ok THEN Err("InvalidNumber")
                          ELSE Ok(Integer(n.num), SliceFrom(in, p))

decode_integer(in) ==
    LET p == position(in, B_e)
    IN  IF p = 0 THEN Err("NoEndMarker")
        ELSE LET body == SubSeq(in, 2, p - 1)
             IN  IF ~from_utf8(body) THEN Err("InvalidSequence")
                 ELSE LET n == parse_i64(body)
                      IN  IF ~n.ok THEN Err("InvalidNumber")
                          ELSE Ok(Integer(n.num), SliceFrom(in, p))

\* length <= n for a parsed length and a buffer size n
FitsIn(mag, n) == ~MagLess(NatToMag(n), mag)

\* a decode_string that reads the length from the last digit before ':'
decode_string_one_digit(in) ==
    LET p == position(in, B_colon)
    IN  IF p = 0 THEN Err("NoStringDelimiter")
        ELSE LET prefix == SubSeq(in, 1, p - 1)
             IN  IF ~from_utf8(prefix) THEN Err("InvalidSequence")
                 ELSE LET n == parse_usize(SubSeq(in, p - 1, p - 1))
                      IN  IF ~n.ok THEN Err("InvalidNumber")
                          ELSE IF ~FitsIn(n.num.mag, Len(in) - p) THEN Panic
                          ELSE LET length == MagToNat(n.num.mag)
                               IN  Ok(String(SubSeq(in, p + 1, p + length)),
                                      SliceFrom(in, p + length))

decode_string(in) ==
    LET p == position(in, B_colon)
    IN  IF p = 0 THEN Err("NoStringDelimiter")
        ELSE LET prefix == SubSeq(in, 1, p - 1)
             IN  IF ~from_utf8(prefix) THEN Err("InvalidSequence")
                 ELSE LET n == parse_usize(prefix)
                      IN  IF ~n.ok THEN Err("InvalidNumber")
                          ELSE IF ~FitsIn(n.num.mag, Len(in) - p) THEN Panic
                          ELSE LET length == MagToNat(n.num.mag)
                               IN  Ok(String(SubSeq(in, p + 1, p + length)),
                                      SliceFrom(in, p + length))

RECURSIVE decode(_)
RECURSIVE list_loop(_, _)
RECURSIVE dictionary_loop(_, _)

\* a push at the front
push_front(list, value) == <<value>> \o list

\* Vec::push
push(list, value) == Append(list, value)

list_loop(list, rest) ==
    IF rest # <<>> /\ rest[1] # B_e
    THEN LET r == decode(rest)
         IN  IF r.kind # "Ok" THEN r
             ELSE list_loop(push(list, r.value), r.rest)
    ELSE IF rest = <<>> THEN Panic
    ELSE Ok(List(list), SliceFrom(rest, 1))

decode_list(in) == list_loop(<<>>, SliceFrom(in, 1))

dictionary_loop(dictionary, remaining) ==
    IF remaining # <<>> /\ remaining[1] # B_e
    THEN LET k == decode_string(remaining)
         IN  IF k.kind # "Ok" THEN k
             ELSE LET v == decode(k.rest)
                  IN  IF v.kind # "Ok" THEN v
                      ELSE dictionary_loop(insert(dictionary, k.value.s, v.value),
                                           v.rest)
    ELSE IF remaining = <<>> THEN Panic
    ELSE Ok(Dictionary(dictionary), SliceFrom(remaining, 1))

decode_dictionary(in) == dictionary_loop(<<>>, SliceFrom(in, 1))

\* a decode that takes every byte up to '9' for the start of a string
decode_low_bytes(in) ==
    IF in = <<>> THEN Err("InvalidInput")
    ELSE IF in[1] = B_i THEN decode_integer(in)
    ELSE IF in[1] <= B_9 THEN decode_string(in)
    ELSE IF in[1] = B_l THEN decode_list(in)
    ELSE IF in[1] = B_d THEN decode_dictionary(in)
    ELSE Err("InvalidInput")

decode(in) ==
    IF in = <<>> THEN Err("InvalidInput")
    ELSE IF in[1] = B_i THEN decode_integer(in)
    ELSE IF IsDigit(in[1]) THEN decode_string(in)
    ELSE IF in[1] = B_l THEN decode_list(in)
    ELSE IF in[1] = B_d THEN decode_dictionary(in)
    ELSE Err("InvalidInput")

----------------------------------------------------------------------------
(* The torrent mapper (torrent.rs).  Option<T> is [some, val]; a Result is *)
(* [kind, err, field, val] with err the TorrentError variant and field the *)
(* name MissingField carries.                                              *)

Some(x) == [some |-> TRUE, val |-> x]

NoBytes == [some |-> FALSE, val |-> <<>>]

NoInteger == [some |-> FALSE, val |-> Zero]

TOk(x) == [kind |-> "Ok", err |-> "-", field |-> "-", val |-> x]

NoFile == [length |-> Zero, path |-> <<>>]

NoInfo == [name |-> <<>>, piece_length |-> Zero, files |-> <<>>, pieces |-> <<>>]

NoTorrent ==
    [announce |-> <<>>, created_by |-> <<>>, creation_date |-> Zero,
     info |-> NoInfo]

TErr(e, f, none) == [kind |-> "Err", err |-> e, field |-> f, val |-> none]

TNotRun == [kind |-> "NotRun", err |-> "-", field |-> "-", val |-> NoTorrent]

K_announce == <<97, 110, 110, 111, 117, 110, 99, 101>>

K_created_by == <<99, 114, 101, 97, 116, 101, 100, 32, 98, 121>>

K_creation_date == <<99, 114, 101, 97, 116, 105, 111, 110, 32, 100, 97, 116, 101>>

K_info == <<105, 110, 102, 111>>

K_name == <<110, 97, 109, 101>>

K_piece_length == <<112, 105, 101, 99, 101, 32, 108, 101, 110, 103, 116, 104>>

K_files == <<102, 105, 108, 101, 115>>

K_pieces == <<112, 105, 101, 99, 101, 115>>

K_length == <<108, 101, 110, 103, 116, 104>>

K_path == <<112, 97, 116, 104>>

as_integer(v) == IF v.tag = "Integer" THEN Some(v.i) ELSE NoInteger

as_string(v) ==
    IF v.tag = "String" /\ from_utf8(v.s) THEN Some(v.s) ELSE NoBytes

as_dict(v) == IF v.tag = "Dictionary" THEN Some(v.d) ELSE NoBytes

as_list(v) == IF v.tag = "List" THEN Some(v.l) ELSE NoBytes

as_bytes(v) == IF v.tag = "String" THEN Some(v.s) ELSE NoBytes

get_dictionary(dictionary, key) ==
    IF key \in DOMAIN dictionary THEN as_dict(dictionary[key]) ELSE NoBytes

get_integer(dictionary, key) ==
    IF key \in DOMAIN dictionary THEN as_integer(dictionary[key]) ELSE NoInteger

get_list(dictionary, key) ==
    IF key \in DOMAIN dictionary THEN as_list(dictionary[key]) ELSE NoBytes

get_string(dictionary, key) ==
    IF key \in DOMAIN dictionary THEN as_string(dictionary[key]) ELSE NoBytes

get_bytes(dictionary, key) ==
    IF key \in DOMAIN dictionary THEN as_bytes(dictionary[key]) ELSE NoBytes

\* chrono's DateTime::<Utc>::MIN_UTC and MAX_UTC, in seconds since the epoch
TimestampMinMag == <<8,3,3,4,6,0,1,2,2,8,8,0,0>>

TimestampMaxMag == <<8,2,1,0,2,6,6,8,7,6,7,9,9>>

\* DateTime::from_timestamp(epoch, 0); a DateTime<Utc> is kept as its epoch
from_timestamp(epoch) ==
    IF MagLess(IF epoch.neg THEN TimestampMinMag ELSE TimestampMaxMag, epoch.mag)
    THEN NoInteger
    ELSE Some(epoch)

\* the lower-case digits of {:02x}
HexDigit_lower(n) == IF n < 10 THEN B_0 + n ELSE 97 + (n - 10)

HexDigit(n) == IF n < 10 THEN B_0 + n ELSE 65 + (n - 10)

\* format!("{:02X}", b) for every byte, collected into one String
RECURSIVE hex(_)
hex(bytes) ==
    IF bytes = <<>> THEN <<>>
    ELSE <<HexDigit(Head(bytes) \div 16), HexDigit(Head(bytes) % 16)>>
           \o hex(Tail(bytes))

\* the inner map/collect of get_files: the path segments, or InvalidString
RECURSIVE get_path(_)
get_path(segments) ==
    IF segments = <<>> THEN TOk(<<>>)
    ELSE LET seg == as_string(Head(segments))
         IN  IF ~seg.some THEN TErr("InvalidString", "-", <<>>)
             ELSE LET tl == get_path(Tail(segments))
                  IN  IF tl.kind # "Ok" THEN tl
                      ELSE TOk(<<seg.val>> \o tl.val)

get_file(file) ==
    LET file_dictionary == as_dict(file)
    IN  IF ~file_dictionary.some THEN TErr("InvalidDictionary", "-", NoFile)
        ELSE LET length == get_integer(file_dictionary.val, K_length)
             IN  IF ~length.some THEN TErr("MissingField", "length", NoFile)
                 ELSE LET segments == get_list(file_dictionary.val, K_path)
                      IN  IF ~segments.some
                          THEN TErr("MissingField", "path", NoFile)
                          ELSE LET path == get_path(segments.val)
                               IN  IF path.kind # "Ok"
                                   THEN TErr(path.err, path.field, NoFile)
                                   ELSE TOk([length |-> length.val,
                                             path |-> path.val])

RECURSIVE get_files(_)
get_files(file_list) ==
    IF file_list = <<>> THEN TOk(<<>>)
    ELSE LET file == get_file(Head(file_list))
         IN  IF file.kind # "Ok" THEN TErr(file.err, file.field, <<>>)
             ELSE LET tl == get_files(Tail(file_list))
                  IN  IF tl.kind # "Ok" THEN tl
                      ELSE TOk(<<file.val>> \o tl.val)

\* a get_info that looks for pieces before it maps the files
get_info_pieces_first(info_dictionary) ==
    LET name == get_string(info_dictionary, K_name)
        piece_length == get_integer(info_dictionary, K_piece_length)
        file_list == get_list(info_dictionary, K_files)
        files == get_files(file_list.val)
        pieces == get_bytes(info_dictionary, K_pieces)
    IN  IF ~name.some THEN TErr("MissingField", "name", NoInfo)
        ELSE IF ~piece_length.some
             THEN TErr("MissingField", "piece length", NoInfo)
        ELSE IF ~file_list.some THEN TErr("MissingField", "files", NoInfo)
        ELSE IF ~pieces.some THEN TErr("MissingField", "pieces", NoInfo)
        ELSE IF files.kind # "Ok" THEN TErr(files.err, files.field, NoInfo)
        ELSE TOk([name |-> name.val, piece_length |-> piece_length.val,
                  files |-> files.val, pieces |-> hex(pieces.val)])

get_info(info_dictionary) ==
    LET name == get_string(info_dictionary, K_name)
        piece_length == get_integer(info_dictionary, K_piece_length)
        file_list == get_list(info_dictionary, K_files)
        files == get_files(file_list.val)
        pieces == get_bytes(info_dictionary, K_pieces)
    IN  IF ~name.some THEN TErr("MissingField", "name", NoInfo)
        ELSE IF ~piece_length.some
             THEN TErr("MissingField", "piece length", NoInfo)
        ELSE IF ~file_list.some THEN TErr("MissingField", "files", NoInfo)
        ELSE IF files.kind # "Ok" THEN TErr(files.err, files.field, NoInfo)
        ELSE IF ~pieces.some THEN TErr("MissingField", "pieces", NoInfo)
        ELSE TOk([name |-> name.val, piece_length |-> piece_length.val,
                  files |-> files.val, pieces |-> hex(pieces.val)])

creation_date_of(root) ==
    LET epoch == get_integer(root, K_creation_date)
    IN  IF epoch.some THEN from_timestamp(epoch.val) ELSE NoInteger

\* a from_bencode that looks for created by before announce
from_bencode_created_by_first(value) ==
    LET root == as_dict(value)
    IN  IF ~root.some THEN TErr("InvalidTorrentFile", "-", NoTorrent)
        ELSE LET announce == get_string(root.val, K_announce)
                 created_by == get_string(root.val, K_created_by)
                 creation_date == creation_date_of(root.val)
                 info_dictionary == get_dictionary(root.val, K_info)
                 info == get_info(info_dictionary.val)
             IN  IF ~created_by.some
                 THEN TErr("MissingField", "created by", NoTorrent)
                 ELSE IF ~announce.some
                      THEN TErr("MissingField", "announce", NoTorrent)
                 ELSE IF ~creation_date.some
                      THEN TErr("MissingField", "creation date", NoTorrent)
                 ELSE IF ~info_dictionary.some
                      THEN TErr("MissingField", "info", NoTorrent)
                 ELSE IF info.kind # "Ok"
                      THEN TErr(info.err, info.field, NoTorrent)
                 ELSE TOk([announce |-> announce.val,
                           created_by |-> created_by.val,
                           creation_date |-> creation_date.val,
                           info |-> info.val])

from_bencode(value) ==
    LET root == as_dict(value)
    IN  IF ~root.some THEN TErr("InvalidTorrentFile", "-", NoTorrent)
        ELSE LET announce == get_string(root.val, K_announce)
                 created_by == get_string(root.val, K_created_by)
                 creation_date == creation_date_of(root.val)
                 info_dictionary == get_dictionary(root.val, K_info)
                 info == get_info(info_dictionary.val)
             IN  IF ~announce.some
                 THEN TErr("MissingField", "announce", NoTorrent)
                 ELSE IF ~created_by.some
                      THEN TErr("MissingField", "created by", NoTorrent)
                 ELSE IF ~creation_date.some
                      THEN TErr("MissingField", "creation date", NoTorrent)
                 ELSE IF ~info_dictionary.some
                      THEN TErr("MissingField", "info", NoTorrent)
                 ELSE IF info.kind # "Ok"
                      THEN TErr(info.err, info.field, NoTorrent)
                 ELSE TOk([announce |-> announce.val,
                           created_by |-> created_by.val,
                           creation_date |-> creation_date.val,
                           info |-> info.val])

----------------------------------------------------------------------------
(* The canonical encoder: the grammar inverse, dictionary keys in          *)
(* ascending byte-lexicographic order.                                     *)

RECURSIVE LexLess(_, _)
LexLess(a, b) ==
    IF b = <<>> THEN FALSE
    ELSE IF a = <<>> THEN TRUE
    ELSE IF a[1] # b[1] THEN a[1] < b[1]
    ELSE LexLess(Tail(a), Tail(b))

RECURSIVE SortedKeys(_)
SortedKeys(keys) ==
    IF keys = {} THEN <<>>
    ELSE LET least == CHOOSE k \in keys : \A x \in keys \ {k} : LexLess(k, x)
         IN  <<least>> \o SortedKeys(keys \ {least})

encode_integer(n) ==
    <<B_i>> \o (IF n.neg THEN <<B_minus>> ELSE <<>>) \o DigitBytes(n.mag)
            \o <<B_e>>

encode_string(bytes) == DigitBytes(NatToMag(Len(bytes))) \o <<B_colon>> \o bytes

RECURSIVE encode(_)
RECURSIVE encode_items(_)
RECURSIVE encode_entries(_, _)

encode_items(items) ==
    IF items = <<>> THEN <<>>
    ELSE encode(Head(items)) \o encode_items(Tail(items))

encode_entries(map, keys) ==
    IF keys = <<>> THEN <<>>
    ELSE encode_string(Head(keys)) \o encode(map[Head(keys)])
           \o encode_entries(map, Tail(keys))

encode(v) ==
    IF v.tag = "Integer" THEN encode_integer(v.i)
    ELSE IF v.tag = "String" THEN encode_string(v.s)
    ELSE IF v.tag = "List" THEN <<B_l>> \o encode_items(v.l) \o <<B_e>>
    ELSE <<B_d>> \o encode_entries(v.d, SortedKeys(DOMAIN v.d)) \o <<B_e>>

\* the bytes the info-hash is the SHA-1 digest of
info_hash_input(info) == encode(info)

----------------------------------------------------------------------------
(* The buffers and values the decoder is run on.                           *)

MaxRawLen == 4

MaxNodes == 4

MaxPad == 2

MaxInt == 120

MaxEntries == 3

RawBytes == {B_i, B_e, B_l, B_d, B_colon, B_0, B_0 + 1, B_minus, B_plus, 255}

RECURSIVE SeqsUpTo(_, _)
SeqsUpTo(S, n) ==
    IF n = 0 THEN {<<>>}
    ELSE LET shorter == SeqsUpTo(S, n - 1)
         IN  shorter \cup {Append(q, x) : q \in {t \in shorter : Len(t) = n - 1},
                                          x \in S}

\* numbers at and just beyond the 64-bit limits
LimitBuffers ==
    { <<B_i>> \o DigitBytes(I64MaxMag) \o <<B_e>>,
      <<B_i>> \o DigitBytes(I64MinMag) \o <<B_e>>,
      <<B_i, B_minus>> \o DigitBytes(I64MinMag) \o <<B_e>>,
      <<B_i, B_minus>> \o DigitBytes(I64MinMag) \o <<B_0, B_e>>,
      DigitBytes(UsizeMaxMag) \o <<B_colon, 97>>,
      DigitBytes(UsizeMaxMag) \o <<B_0, B_colon, 97>>,
      <<B_0 + 1, B_0 + 2, B_colon>> \o DigitBytes(I64MaxMag),
      <<B_l, B_0 + 1, B_colon, 97, B_i, B_0 + 3, B_e>>,
      <<B_d, B_0 + 1, B_colon, 97, B_i, B_0 + 1, B_e>>,
      <<B_d, B_0 + 1, B_colon, 97, B_i, B_0 + 1, B_e, B_e, 255>>,
      <<B_i, 195, 169, B_e>>,
      <<B_i, B_0 + 1, 97, B_0 + 3, B_e>>,
      <<B_d, B_0 + 1, B_colon, 97, B_i, B_0 + 1, B_e, B_e>>,
      <<B_d, B_plus, B_0 + 1, B_colon, 97, B_i, B_0 + 1, B_e, B_e>>,
      <<B_d, B_i, B_0 + 1, B_e, B_i, B_0 + 2, B_e, B_e>>,
      <<B_d, B_l, B_e, B_0 + 1, B_colon, 97, B_e>>,
      <<B_d, B_d, B_e, B_0 + 1, B_colon, 97, B_e>>,
      <<B_l, B_i, B_0 + 4, B_0 + 2, B_e, B_l, B_i, B_0 + 4, B_0 + 2, B_e, B_e,
        B_e>> }

RawBuffers == SeqsUpTo(RawBytes, MaxRawLen) \cup LimitBuffers

Rests == { <<>>, <<B_e>>, <<B_i, B_0 + 4, B_0 + 2, B_e>>, <<255, B_colon>> }

SmallAtoms ==
    { Integer(Num(-12)), Integer(Zero), String(<<>>), String(<<B_i, B_e>>) }

DictKeys == << <<97, 98>>, <<98>> >>

RECURSIVE ValuesOfSize(_)
RECURSIVE ListsOfSize(_)
RECURSIVE DictsOfSize(_, _)

\* the non-empty lists whose items have m nodes in all
ListsOfSize(m) ==
    UNION { { <<v>> \o tl : v \in ValuesOfSize(k),
                            tl \in (IF k = m THEN {<<>>} ELSE ListsOfSize(m - k)) }
            : k \in 1..m }

\* the maps over DictKeys[j..] whose values have m nodes in all
DictsOfSize(m, j) ==
    IF m = 0 THEN {<<>>}
    ELSE IF j > Len(DictKeys) THEN {}
    ELSE DictsOfSize(m, j + 1) \cup
         UNION { { (DictKeys[j] :> v) @@ d : v \in ValuesOfSize(k),
                                               d \in DictsOfSize(m - k, j + 1) }
                 : k \in 1..m }

ValuesOfSize(n) ==
    IF n = 1 THEN SmallAtoms \cup {List(<<>>), Dictionary(<<>>)}
    ELSE {List(items) : items \in ListsOfSize(n - 1)}
           \cup {Dictionary(map) : map \in DictsOfSize(n - 1, 1)}

TenBytes == <<B_0, B_colon, B_e, B_i, B_l, B_d, 255, 97, 98, B_minus>>

BigAtoms ==
    { Integer([neg |-> FALSE, mag |-> I64MaxMag]),
      Integer([neg |-> TRUE, mag |-> I64MinMag]),
      Integer(Num(7)), Integer(Num(100)),
      String(<<255>>), String(<<B_0 + 1, B_colon, 97>>),
      String(TenBytes), String(TenBytes \o <<B_colon, B_e>>),
      String(TenBytes \o TenBytes \o TenBytes) }

Values == BigAtoms \cup UNION {ValuesOfSize(n) : n \in 1..MaxNodes}

Numerals ==
    {Num(n) : n \in (-MaxInt)..MaxInt}
      \cup {[neg |-> FALSE, mag |-> I64MaxMag], [neg |-> TRUE, mag |-> I64MinMag]}

\* the decimal spellings of n: '-' for a negative n (and, for 0, "-0" as
\* well), then pad zeros, then the digits
Spellings(n) ==
    { sign \o [k \in 1..pad |-> B_0] \o DigitBytes(n.mag) :
        sign \in (IF n.neg THEN {<<B_minus>>}
                  ELSE IF n = Zero THEN {<<>>, <<B_minus>>} ELSE {<<>>}),
        pad \in 0..MaxPad }

Entry(k, v) == [key |-> k, value |-> v]

EntryLists ==
    SeqsUpTo({Entry(k, v) : k \in {DictKeys[j] : j \in 1..Len(DictKeys)}
                                    \cup {<<>>},
                            v \in {Integer(Num(-12)), String(<<B_i, B_e>>),
                                   List(<<>>)}},
             MaxEntries)

RECURSIVE WireEntries(_)
WireEntries(entries) ==
    IF entries = <<>> THEN <<>>
    ELSE encode_string(Head(entries).key) \o encode(Head(entries).value)
           \o WireEntries(Tail(entries))

MaxFiles == 2

Absent == [some |-> FALSE, val |-> NoValue]

\* the dictionary holding the fields that are present
RECURSIVE MkDict(_, _)
MkDict(keys, opts) ==
    IF keys = <<>> THEN <<>>
    ELSE LET tl == MkDict(Tail(keys), Tail(opts))
         IN  IF Head(opts).some THEN (Head(keys) :> Head(opts).val) @@ tl
             ELSE tl

GoodText == Some(String(<<97, 98>>))

\* a text field: good, absent, of another variant, not UTF-8
TextOpts == {GoodText, Absent, Some(Integer(Num(7))), Some(String(<<255>>))}

GoodDates ==
    { Some(Integer([neg |-> FALSE, mag |-> <<1,7,3,5,4,0,3,7,4,4,1,6,3>>])),
      Some(Integer(Num(-1))) }

DateOpts ==
    GoodDates \cup
    { Absent, Some(String(<<B_0 + 1>>)),
      Some(Integer([neg |-> FALSE, mag |-> I64MaxMag])),
      Some(Integer([neg |-> TRUE, mag |-> I64MinMag])) }

GoodPath == Some(List(<<String(<<97>>), String(<<98, B_colon>>)>>))

GoodLength == Some(Integer(Num(1234)))

FileDict(length, path) ==
    Dictionary(MkDict(<<K_length, K_path>>, <<length, path>>))

FileEntries ==
    { FileDict(GoodLength, GoodPath),
      FileDict(Some(Integer(Zero)), Some(List(<<>>))),
      Integer(Num(123)),
      FileDict(Absent, GoodPath),
      FileDict(Some(String(<<B_0 + 1>>)), GoodPath),
      FileDict(GoodLength, Absent),
      FileDict(Absent, Absent),
      FileDict(GoodLength, Some(List(<<String(<<97>>), Integer(Num(123))>>))),
      FileDict(GoodLength, Some(List(<<String(<<255>>)>>))) }

FilesOpts ==
    {Absent, Some(Integer(Num(3)))}
      \cup {Some(List(fl)) : fl \in SeqsUpTo(FileEntries, MaxFiles)}

PieceLengthOpts == {Some(Integer(Num(16384))), Absent, Some(String(<<B_0 + 1>>))}

PiecesOpts == {Some(String(<<255, 0, 97>>)), Absent, Some(List(<<>>))}

InfoDict(name, piece_length, files, pieces) ==
    Dictionary(MkDict(<<K_name, K_piece_length, K_files, K_pieces>>,
                      <<name, piece_length, files, pieces>>))

Infos ==
    { Some(InfoDict(n, pl, f, p)) :
        n \in TextOpts, pl \in PieceLengthOpts, f \in FilesOpts, p \in PiecesOpts }

FewInfos ==
    { Absent, Some(List(<<>>)),
      Some(InfoDict(GoodText, Some(Integer(Num(16384))), Some(List(<<>>)),
                    Some(String(<<255, 0, 97>>)))),
      Some(InfoDict(Absent, Absent, Absent, Absent)) }

RootDict(announce, created_by, creation_date, info) ==
    Dictionary(MkDict(<<K_announce, K_created_by, K_creation_date, K_info>>,
                      <<announce, created_by, creation_date, info>>))

\* every info dictionary under good top-level fields, a few under bad ones
Roots ==
    { Integer(Num(123)), String(K_announce), List(<<Dictionary(<<>>)>>) }
      \cup { RootDict(a, c, dt, inf) :
               a \in TextOpts, c \in TextOpts, dt \in DateOpts, inf \in FewInfos }
      \cup { RootDict(GoodText, GoodText, dt, inf) :
               dt \in GoodDates, inf \in Infos }

Given(family, v, r, d, entries) ==
    [family |-> family, v |-> v, r |-> r, d |-> d, entries |-> entries]

----------------------------------------------------------------------------
(* The pipeline: raw bytes -> decode -> Value tree -> Torrent::from_bencode *)

Start(buffer, g) ==
    /\ input = buffer
    /\ given = g
    /\ result = NotRun
    /\ bencode = NoValue
    /\ torrent = TNotRun
    /\ pc = "start"

\* any buffer over a small alphabet
InitRaw ==
    \E buffer \in RawBuffers :
        Start(buffer, Given("raw", NoValue, <<>>, <<>>, <<>>))

\* the canonical encoding of a value followed by a remainder, and the
\* encoding of a list or dictionary cut before its final 'e'
InitValue ==
    \/ \E v \in Values, r \in Rests :
           Start(encode(v) \o r, Given("value", v, r, <<>>, <<>>))
    \/ \E v \in {x \in Values : x.tag \in {"List", "Dictionary"}} :
           Start(SubSeq(encode(v), 1, Len(encode(v)) - 1),
                 Given("truncated", v, <<>>, <<>>, <<>>))

\* 'i' D 'e' R for a spelling D of a 64-bit number
InitInt ==
    \E n \in Numerals, r \in Rests :
        \E d \in Spellings(n) :
            Start(<<B_i>> \o d \o <<B_e>> \o r,
                  Given("int", Integer(n), r, d, <<>>))

\* 'd' (key value)* 'e' R with the entries in any order, keys repeated
InitDict ==
    \E entries \in EntryLists, r \in Rests :
        Start(<<B_d>> \o WireEntries(entries) \o <<B_e>> \o r,
              Given("dict", NoValue, r, <<>>, entries))

\* the canonical encoding of a torrent root
InitTorrent ==
    \E root \in Roots :
        Start(encode(root), Given("torrent", root, <<>>, <<>>, <<>>))

Decode ==
    /\ pc = "start"
    /\ result' = decode(input)
    /\ bencode' = result'.value
    /\ pc' = IF result'.kind = "Panic" THEN "aborted" ELSE "decoded"
    /\ UNCHANGED <<input, given, torrent>>

FromBencode ==
    /\ pc = "decoded"
    /\ result.kind = "Ok"
    /\ torrent' = from_bencode(bencode)
    /\ pc' = "mapped"
    /\ UNCHANGED <<input, result, bencode, given>>

Next == Decode \/ FromBencode

SpecRaw == InitRaw /\ [][Next]_vars

SpecValue == InitValue /\ [][Next]_vars

SpecInt == InitInt /\ [][Next]_vars

SpecDict == InitDict /\ [][Next]_vars

SpecTorrent == InitTorrent /\ [][Next]_vars

Spec == SpecRaw

----------------------------------------------------------------------------
(* Claims.                                                                 *)

Decoded == pc # "start"

\* C1: for every buffer that starts with a decimal length L, then ':', then
\* fewer than L bytes, decode returns an error value (it neither reads past
\* the buffer nor panics).
C1_ShortStringIsError ==
    LET p == position(input, B_colon)
        prefix == SubSeq(input, 1, p - 1)
    IN  ( /\ Decoded
          /\ p > 1
          /\ AllDigits(prefix)
          /\ ~FitsIn(StripZeros(DigitValues(prefix)), Len(input) - p) )
        => result.kind = "Err"

\* C2: for every buffer that starts with 'l' or 'd' and ends before the
\* matching 'e', decode returns an error value: no incomplete collection and
\* no panic.
C2_UnterminatedIsError ==
    ( /\ Decoded
      /\ given.family = "truncated"
      /\ input = SubSeq(encode(given.v), 1, Len(encode(given.v)) - 1)
      /\ input[1] \in {B_l, B_d} )
    => result.kind = "Err"

\* C3: round trip, decode(encode(v)) = (v, empty remainder) for every value
\* v, where encode emits dictionary keys in ascending byte order.
C3_RoundTrip ==
    (Decoded /\ given.family = "value" /\ given.r = <<>>)
    => /\ input = encode(given.v)
       /\ result = Ok(given.v, <<>>)

C3_Witness ==
    /\ pc = "decoded"
    /\ given.family = "value"
    /\ given.r = <<>>
    /\ given.v.tag = "Dictionary"
    /\ Cardinality(DOMAIN given.v.d) = 2
    /\ \E k \in DOMAIN given.v.d :
           given.v.d[k].tag = "List" /\ given.v.d[k].l # <<>>
    /\ result.kind = "Ok"

\* C4: for every input 'i' D 'e' R, with D a decimal spelling (optionally
\* prefixed with '-') of a 64-bit number n, decode returns (Integer(n), R).
C4_IntegerValueAndRest ==
    (Decoded /\ given.family = "int")
    => /\ given.d \in Spellings(given.v.i)
       /\ input = <<B_i>> \o given.d \o <<B_e>> \o given.r
       /\ result = Ok(Integer(given.v.i), given.r)

C4_Witness ==
    /\ pc = "decoded"
    /\ given.family = "int"
    /\ given.v.i = [neg |-> TRUE, mag |-> I64MinMag]
    /\ given.d[2] = B_0
    /\ given.r # <<>>
    /\ result.kind = "Ok"

\* C5: for every input <L> ':' B R, with <L> the unsigned decimal spelling
\* of len(B), decode returns (ByteString(B), R).
C5_StringValueAndRest ==
    (Decoded /\ given.family = "value" /\ given.v.tag = "String")
    => /\ input = DigitBytes(NatToMag(Len(given.v.s))) \o <<B_colon>>
                    \o given.v.s \o given.r
       /\ result = Ok(String(given.v.s), given.r)

C5_Witness ==
    /\ pc = "decoded"
    /\ given.family = "value"
    /\ given.v.tag = "String"
    /\ Len(given.v.s) >= 10
    /\ \E k \in 1..Len(given.v.s) : given.v.s[k] = 255
    /\ given.r # <<>>
    /\ result.kind = "Ok"

\* C6: for every input 'l' enc(v1) ... enc(vn) 'e' R, decode returns
\* (List([v1, ..., vn]), R): the elements in input order, none dropped or
\* duplicated, the final 'e' consumed.
C6_ListItemsInOrder ==
    (Decoded /\ given.family = "value" /\ given.v.tag = "List")
    => /\ input = <<B_l>> \o encode_items(given.v.l) \o <<B_e>> \o given.r
       /\ result = Ok(List(given.v.l), given.r)

C6_Witness ==
    /\ pc = "decoded"
    /\ given.family = "value"
    /\ given.v.tag = "List"
    /\ Len(given.v.l) >= 2
    /\ given.v.l[1] # given.v.l[2]
    /\ given.v.l[2].tag = "List"
    /\ given.r # <<>>
    /\ result.kind = "Ok"

\* C7: for every input 'd' (key value)* 'e' R with byte-string keys, decode
\* returns (Dictionary(m), R) where m maps each key of the input to the value
\* of its last occurrence and holds no other key.
C7_LastWriteWins ==
    LET entries == given.entries
        last(k) == CHOOSE j \in 1..Len(entries) :
                       /\ entries[j].key = k
                       /\ \A h \in (j + 1)..Len(entries) : entries[h].key # k
        m == [k \in {entries[j].key : j \in 1..Len(entries)}
                |-> entries[last(k)].value]
    IN  (Decoded /\ given.family = "dict")
        => /\ input = <<B_d>> \o WireEntries(entries) \o <<B_e>> \o given.r
           /\ result = Ok(Dictionary(m), given.r)

C7_Witness ==
    /\ pc = "decoded"
    /\ given.family = "dict"
    /\ Len(given.entries) = 3
    /\ given.entries[1].key = given.entries[3].key
    /\ given.entries[1].value # given.entries[3].value
    /\ given.entries[2].key # given.entries[1].key
    /\ result.kind = "Ok"
    /\ Cardinality(DOMAIN result.value.d) = 2

\* C8: on an input whose first byte is 'i', decode fails with NoEndMarker
\* when the buffer holds no 'e', and with InvalidNumber when an 'e' is there
\* but the text between 'i' and the first 'e' is not a signed 64-bit decimal
\* (a non-digit character, an empty body, or a number out of range).
C8_IntegerErrorKinds ==
    LET p == position(input, B_e)
        body == SubSeq(input, 2, p - 1)
        signed == body # <<>> /\ body[1] \in {B_plus, B_minus}
        digits == IF signed THEN Tail(body) ELSE body
        limit == IF signed /\ body[1] = B_minus THEN I64MinMag ELSE I64MaxMag
        unparsable ==
            \/ digits = <<>>
            \/ \E k \in 1..Len(digits) : ~IsDigit(digits[k])
            \/ MagLess(limit, StripZeros(DigitValues(digits)))
    IN  (Decoded /\ input # <<>> /\ input[1] = B_i)
        => /\ p = 0 => result = Err("NoEndMarker")
           /\ (p > 0 /\ from_utf8(body) /\ unparsable)
                => result = Err("InvalidNumber")

C8_Witness ==
    /\ pc = "decoded"
    /\ input = <<B_i>> \o DigitBytes(I64MinMag) \o <<B_e>>
    /\ result = Err("InvalidNumber")

\* C9: decode returns InvalidInput for every buffer that is empty or whose
\* first byte is not 'i', 'l', 'd' or an ASCII digit; it returns no value
\* for such a buffer.
C9_InvalidLeadingByte ==
    ( /\ Decoded
      /\ \/ input = <<>>
         \/ input[1] \notin {B_i, B_l, B_d} \cup (B_0..B_9) )
    => result = Err("InvalidInput")

C9_Witness ==
    /\ pc = "decoded"
    /\ Len(input) > 1
    /\ input[1] = B_plus
    /\ input[2] = B_0 + 1
    /\ result = Err("InvalidInput")

\* a field is missing from a dictionary when it is absent or holds a value
\* of another variant
Missing(d, key, tag) == key \notin DOMAIN d \/ d[key].tag # tag

\* a field that from_bencode cannot turn into text or into a DateTime
Unusable(d, key) ==
    IF d[key].tag = "String" THEN ~from_utf8(d[key].s)
    ELSE MagLess(IF d[key].i.neg THEN TimestampMinMag ELSE TimestampMaxMag,
                 d[key].i.mag)

\* a files entry that get_files rejects
Rejected(file) ==
    \/ file.tag # "Dictionary"
    \/ Missing(file.d, K_length, "Integer")
    \/ Missing(file.d, K_path, "List")
    \/ \E k \in 1..Len(file.d[K_path].l) :
           LET segment == file.d[K_path].l[k]
           IN  segment.tag # "String" \/ ~from_utf8(segment.s)

\* the first field, in the order of from_bencode and get_info, that fails;
\* with strict = FALSE only absence and the variant count
FirstFailing(root, strict) ==
    LET fails(d, key, tag, convert) ==
            Missing(d, key, tag) \/ (strict /\ convert /\ Unusable(d, key))
        info == root[K_info].d
    IN  IF fails(root, K_announce, "String", TRUE) THEN "announce"
        ELSE IF fails(root, K_created_by, "String", TRUE) THEN "created by"
        ELSE IF fails(root, K_creation_date, "Integer", TRUE)
             THEN "creation date"
        ELSE IF fails(root, K_info, "Dictionary", FALSE) THEN "info"
        ELSE IF fails(info, K_name, "String", TRUE) THEN "name"
        ELSE IF fails(info, K_piece_length, "Integer", FALSE)
             THEN "piece length"
        ELSE IF fails(info, K_files, "List", FALSE) THEN "files"
        ELSE IF strict /\ \E k \in 1..Len(info[K_files].l) :
                              Rejected(info[K_files].l[k])
             THEN "a files entry"
        ELSE IF fails(info, K_pieces, "String", FALSE) THEN "pieces"
        ELSE "none"

\* C10 (as stated): from_bencode returns InvalidTorrentFile when the root
\* is not a Dictionary; otherwise it returns MissingField naming the first
\* of announce, created by, creation date, info, name, piece length, files,
\* pieces that is absent or of the wrong variant.
C10_FirstAbsentOrWrongVariant ==
    pc = "mapped"
    => IF bencode.tag # "Dictionary"
       THEN torrent = TErr("InvalidTorrentFile", "-", NoTorrent)
       ELSE FirstFailing(bencode.d, FALSE) # "none"
            => torrent = TErr("MissingField", FirstFailing(bencode.d, FALSE),
                              NoTorrent)

\* C10 (amended): from_bencode returns InvalidTorrentFile when the root is
\* not a Dictionary; otherwise it returns MissingField naming the first field
\* in that order that is absent, of the wrong variant, not valid UTF-8
\* (announce, created by, name) or outside the range of DateTime (creation
\* date); when every field before pieces passes but a files entry is
\* malformed, the error of that entry is returned instead.
C10_FirstUnusableField ==
    pc = "mapped"
    => IF bencode.tag # "Dictionary"
       THEN torrent = TErr("InvalidTorrentFile", "-", NoTorrent)
       ELSE LET first == FirstFailing(bencode.d, TRUE)
            IN  /\ first \notin {"none", "a files entry"}
                     => torrent = TErr("MissingField", first, NoTorrent)
                /\ first = "a files entry"
                     => /\ torrent.kind = "Err"
                        /\ torrent.val = NoTorrent
                        /\ \/ torrent.err \in {"InvalidDictionary",
                                               "InvalidString"}
                           \/ /\ torrent.err = "MissingField"
                              /\ torrent.field \in {"length", "path"}

C10_Witness ==
    /\ pc = "mapped"
    /\ bencode.tag = "Dictionary"
    /\ K_announce \in DOMAIN bencode.d
    /\ bencode.d[K_announce].tag = "String"
    /\ ~from_utf8(bencode.d[K_announce].s)
    /\ K_created_by \notin DOMAIN bencode.d
    /\ K_info \notin DOMAIN bencode.d
    /\ torrent = TErr("MissingField", "announce", NoTorrent)

\* the root fulfils what C11 asks of it; with anyDate = FALSE the creation
\* date must also lie in the range of DateTime
WellFormed(root, anyDate) ==
    /\ ~Missing(root, K_announce, "String") /\ ~Unusable(root, K_announce)
    /\ ~Missing(root, K_created_by, "String") /\ ~Unusable(root, K_created_by)
    /\ ~Missing(root, K_creation_date, "Integer")
    /\ anyDate \/ ~Unusable(root, K_creation_date)
    /\ ~Missing(root, K_info, "Dictionary")
    /\ LET info == root[K_info].d
       IN  /\ ~Missing(info, K_name, "String") /\ ~Unusable(info, K_name)
           /\ ~Missing(info, K_piece_length, "Integer")
           /\ ~Missing(info, K_files, "List")
           /\ \A k \in 1..Len(info[K_files].l) : ~Rejected(info[K_files].l[k])
           /\ ~Missing(info, K_pieces, "String")

\* the Torrent whose fields are the literal values of the root, with the
\* given pieces
Reproduced(root, pieces) ==
    LET info == root[K_info].d
        files == info[K_files].l
        segments(k) == files[k].d[K_path].l
    IN  [announce |-> root[K_announce].s,
         created_by |-> root[K_created_by].s,
         creation_date |-> root[K_creation_date].i,
         info |-> [name |-> info[K_name].s,
                   piece_length |-> info[K_piece_length].i,
                   files |-> [k \in 1..Len(files) |->
                                [length |-> files[k].d[K_length].i,
                                 path |-> [j \in 1..Len(segments(k)) |->
                                             segments(k)[j].s]]],
                   pieces |-> pieces]]

\* "0123456789ABCDEF"
HexChars == <<48, 49, 50, 51, 52, 53, 54, 55, 56, 57, 65, 66, 67, 68, 69, 70>>

\* two upper-case hexadecimal characters for every byte
HexText(bytes) ==
    [k \in 1..(2 * Len(bytes)) |->
        LET b == bytes[(k + 1) \div 2]
        IN  HexChars[(IF k % 2 = 1 THEN b \div 16 ELSE b % 16) + 1]]

\* C11 (as stated): for every root Dictionary with text announce and
\* created by, any Integer creation date and an info Dictionary with text
\* name, Integer piece length, a files List of well-formed file dictionaries
\* and a ByteString pieces, from_bencode succeeds and every field of the
\* Torrent is the literal source value, pieces being the source bytes.
C11_ReproducesEveryField ==
    (pc = "mapped" /\ bencode.tag = "Dictionary" /\ WellFormed(bencode.d, TRUE))
    => torrent = TOk(Reproduced(bencode.d,
                                bencode.d[K_info].d[K_pieces].s))

\* C11 (amended): for every such root whose creation date lies in the range
\* DateTime::from_timestamp accepts, from_bencode succeeds; announce,
\* created by, creation date, name, piece length and the files (in source
\* order, with their path segments in source order) are the literal source
\* values, and pieces is the source bytes written as upper-case hexadecimal
\* text, two characters per byte.
C11_ReproducesFieldsPiecesInHex ==
    (pc = "mapped" /\ bencode.tag = "Dictionary" /\ WellFormed(bencode.d, FALSE))
    => torrent = TOk(Reproduced(bencode.d,
                                HexText(bencode.d[K_info].d[K_pieces].s)))

C11_Witness ==
    /\ pc = "mapped"
    /\ torrent.kind = "Ok"
    /\ torrent.val.creation_date.neg
    /\ Len(torrent.val.info.files) = 2
    /\ torrent.val.info.files[1] # torrent.val.info.files[2]
    /\ Len(torrent.val.info.files[1].path) = 2
    /\ Len(bencode.d[K_info].d[K_pieces].s) = 3
    /\ Len(torrent.val.info.pieces) = 6

\* C12: the files entries are validated in list order and the first failing
\* entry decides the error: not a Dictionary gives InvalidDictionary, no
\* Integer length MissingField("length"), no List path MissingField("path"),
\* a path element that is not a text ByteString InvalidString; the mapping
\* fails as a whole, before the pieces field is examined.
C12_FirstFailingFileEntry ==
    LET files == bencode.d[K_info].d[K_files].l
        first == CHOOSE k \in 1..Len(files) :
                     Rejected(files[k]) /\ \A j \in 1..(k - 1) : ~Rejected(files[j])
        file == files[first]
    IN  ( /\ pc = "mapped"
          /\ bencode.tag = "Dictionary"
          /\ FirstFailing(bencode.d, TRUE) = "a files entry" )
        => torrent =
             IF file.tag # "Dictionary"
             THEN TErr("InvalidDictionary", "-", NoTorrent)
             ELSE IF Missing(file.d, K_length, "Integer")
                  THEN TErr("MissingField", "length", NoTorrent)
             ELSE IF Missing(file.d, K_path, "List")
                  THEN TErr("MissingField", "path", NoTorrent)
             ELSE TErr("InvalidString", "-", NoTorrent)

C12_Witness ==
    LET info == bencode.d[K_info].d
    IN  /\ pc = "mapped"
        /\ bencode.tag = "Dictionary"
        /\ FirstFailing(bencode.d, TRUE) = "a files entry"
        /\ Len(info[K_files].l) = 2
        /\ ~Rejected(info[K_files].l[1])
        /\ info[K_files].l[2].tag = "Dictionary"
        /\ K_length \notin DOMAIN info[K_files].l[2].d
        /\ K_path \notin DOMAIN info[K_files].l[2].d
        /\ K_pieces \notin DOMAIN info
        /\ torrent = TErr("MissingField", "length", NoTorrent)

\* C13: two info dictionaries that hold the same key/value pairs, written
\* in different key order, yield the same info-hash: the digest is taken
\* over the canonical encoding of the decoded value.
C13_OrderFreeInfoHash ==
    LET entries == given.entries
        n == Len(entries)
        distinct == \A a, b \in 1..n :
                        a # b => entries[a].key # entries[b].key
        orders == {f \in [1..n -> 1..n] :
                     \A a, b \in 1..n : a # b => f[a] # f[b]}
        written(f) ==
            <<B_d>> \o WireEntries([k \in 1..n |-> entries[f[k]]]) \o <<B_e>>
    IN  (Decoded /\ given.family = "dict" /\ distinct)
        => /\ result.kind = "Ok"
           /\ \A f \in orders :
                  LET other == decode(written(f))
                  IN  /\ other.kind = "Ok"
                      /\ info_hash_input(other.value)
                           = info_hash_input(result.value)

C13_Witness ==
    /\ pc = "decoded"
    /\ given.family = "dict"
    /\ Len(given.entries) = 3
    /\ given.entries[1].key = <<98>>
    /\ given.entries[2].key = <<97, 98>>
    /\ given.entries[3].key = <<>>
    /\ given.entries[1].value # given.entries[2].value
    /\ result.kind = "Ok"
    /\ info_hash_input(result.value)[2] = B_0

\* C14: decode on an input starting with 'i' succeeds only if the bytes
\* between the 'i' and the first 'e' are a non-empty run of ASCII digits,
\* optionally prefixed with a single '-'.
C14_OnlyMinusAndDigits ==
    LET p == position(input, B_e)
        body == SubSeq(input, 2, p - 1)
        digits == IF body # <<>> /\ body[1] = B_minus THEN Tail(body) ELSE body
    IN  (Decoded /\ input # <<>> /\ input[1] = B_i /\ result.kind = "Ok")
        => digits # <<>> /\ AllDigits(digits)

\* C15: inside a dictionary, when the bytes at a key position start with
\* anything but an ASCII digit (an 'i', an 'l', a 'd', a sign), decoding the
\* dictionary fails with an error.
C15_NonStringKeyIsError ==
    ( /\ Decoded
      /\ Len(input) >= 2
      /\ input[1] = B_d
      /\ input[2] \notin (B_0..B_9) \cup {B_e} )
    => result.kind = "Err"

\* C16: whenever decode(P) = Ok(v, empty), decode(P ++ S) = Ok(v, S) for
\* every byte sequence S.
C16_RemainderPreserved ==
    (Decoded /\ result.kind = "Ok" /\ result.rest = <<>>)
    => \A S \in SeqsUpTo(RawBytes, 2) :
           decode(input \o S) = Ok(result.value, S)

C16_Witness ==
    /\ pc = "decoded"
    /\ result.kind = "Ok"
    /\ result.rest = <<>>
    /\ result.value.tag = "List"
    /\ Len(result.value.l) = 2
    /\ result.value.l[2].tag = "List"
    /\ result.value.l[2].l # <<>>

\* C17: every successful decode returns a remainder that is a strict suffix
\* of its input, and decode finishes with Ok or Err on every finite buffer.
C17_ProgressAndTermination ==
    Decoded
    => /\ result.kind \in {"Ok", "Err"}
       /\ result.kind = "Ok"
            => /\ Len(result.rest) < Len(input)
               /\ result.rest = SliceFrom(input, Len(input) - Len(result.rest))

\* the part of C17 about progress alone
ProgressOfDecode ==
    (Decoded /\ result.kind = "Ok")
    => /\ Len(result.rest) < Len(input)
       /\ result.rest = SliceFrom(input, Len(input) - Len(result.rest))

====
